---- MODULE Spec2Model ----
(***************************************************************************)
(* Model of src/Client.js: the Client constructor, getLocation,            *)
(* getSignature and createRequest, together with the transport that        *)
(* receives the request object built by createRequest.                     *)
(*                                                                         *)
(* Strings are sequences of atoms.  An atom is a TLA+ string standing for  *)
(* one character (the delimiters, the white space, the digits, the letters *)
(* of a method) or for a run of ordinary characters (a word, a digest).    *)
(* Concatenation is \o, the empty string is <<>>.                          *)
(***************************************************************************)
EXTENDS Integers, Sequences, FiniteSets, TLC

VARIABLES
  ctor,      \* "none" | "ok" | "threw": outcome of new Client(...)
  ctorArgs,  \* the arguments new Client(...) was called with
  this,      \* the fields of the client instance
  heap,      \* the headers objects, by reference
  atCtor,    \* the instance and the heap when the constructor returned
  requests,  \* the request objects handed to the transport, in call order
  log,       \* per createRequest call: its arguments and what it signed
  sig,       \* a direct getSignature call: its arguments and its result
  filtered,  \* an object passed to filterData: as given and as it is now
  history    \* the getAccountHistory calls: arguments and outcome

vars == <<ctor, ctorArgs, this, heap, atCtor, requests, log, sig, filtered,
          history>>

(* Strings                                                                 *)

EmptyStr == <<>>

\* the characters String.prototype.trim removes
WhiteSpace == {" ", "\n", "\t"}

RECURSIVE trimStart(_)
trimStart(s) ==
  IF s # <<>> /\ Head(s) \in WhiteSpace THEN trimStart(Tail(s)) ELSE s

RECURSIVE trimEnd(_)
trimEnd(s) ==
  IF s # <<>> /\ s[Len(s)] \in WhiteSpace
    THEN trimEnd(SubSeq(s, 1, Len(s) - 1))
    ELSE s

trim(s) == trimEnd(trimStart(s))

upperChar(c) ==
  CASE c = "g" -> "G" [] c = "e" -> "E" [] c = "t" -> "T"
    [] c = "p" -> "P" [] c = "o" -> "O" [] c = "s" -> "S"
    [] c = "u" -> "U" [] c = "d" -> "D" [] c = "l" -> "L"
    [] OTHER -> c

toUpperCase(s) == [i \in 1..Len(s) |-> upperChar(s[i])]

\* Array.prototype.join over a sequence of strings
RECURSIVE join(_, _)
join(parts, sep) ==
  IF parts = <<>> THEN <<>>
  ELSE IF Len(parts) = 1 THEN parts[1]
  ELSE parts[1] \o sep \o join(Tail(parts), sep)

IsPrefix(p, s) == Len(p) <= Len(s) /\ SubSeq(s, 1, Len(p)) = p

Drop(s, n) == SubSeq(s, n + 1, Len(s))

\* the longest prefix of s none of whose atoms is in stop
RECURSIVE spanNot(_, _)
spanNot(s, stop) ==
  IF s = <<>> \/ Head(s) \in stop THEN <<>>
  ELSE <<Head(s)>> \o spanNot(Tail(s), stop)

\* the longest prefix of s all of whose atoms are in keep
RECURSIVE spanIn(_, _)
spanIn(s, keep) ==
  IF s = <<>> \/ Head(s) \notin keep THEN <<>>
  ELSE <<Head(s)>> \o spanIn(Tail(s), keep)

(* Digests                                                                 *)

\* sha256(''), the digest js-sha256 returns for the empty string
sha256Empty ==
  <<"e3b0c44298fc1c149afbf4c8996fb92427ae41e4649b934ca495991b7852b855">>

\* js-sha256: a hex digest, one per message
sha256(s) == IF s = <<>> THEN sha256Empty ELSE <<"sha256(">> \o s \o <<")">>

\* crypto.createHmac("sha256", key), write(msg), read().toString('hex')
hmacHex(key, msg) == <<"hmac(">> \o key \o <<",">> \o msg \o <<")">>

(* Objects: null, or a list of own enumerable entries in insertion order   *)

nullObject == [isNull |-> TRUE, entries |-> <<>>]

object(entries) == [isNull |-> FALSE, entries |-> entries]

entry(k, v) == [key |-> k, value |-> v]

\* Object.keys(o), o not null
keys(o) == [i \in 1..Len(o.entries) |-> o.entries[i].key]

\* the text of a JSON string literal
quoted(s) == <<"\"">> \o s \o <<"\"">>

\* JSON.stringify of an object whose values are strings
JSONstringify(o) ==
  IF o.isNull THEN <<"null">>
  ELSE <<"{">>
       \o join([i \in 1..Len(o.entries) |->
                  quoted(o.entries[i].key) \o <<":">>
                  \o quoted(o.entries[i].value)], <<",">>)
       \o <<"}">>

\* the order query-string sorts the keys in (Array.prototype.sort)
keyOrder == <<<<"alpha">>, <<"limit">>, <<"skip">>>>

RECURSIVE sortedEntries(_, _)
sortedEntries(o, order) ==
  IF order = <<>> THEN <<>>
  ELSE LET found == {i \in 1..Len(o.entries) : o.entries[i].key = Head(order)}
       IN (IF found = {} THEN <<>>
           ELSE <<o.entries[CHOOSE i \in found : \A j \in found : j <= i]>>)
          \o sortedEntries(o, Tail(order))

\* queryString.stringify: '' for a null or empty object, else the entries
\* as key=value in sorted key order, joined by &
queryStringStringify(o) ==
  IF o.isNull THEN <<>>
  ELSE LET es == sortedEntries(o, keyOrder)
       IN join([i \in 1..Len(es) |-> es[i].key \o <<"=">> \o es[i].value],
               <<"&">>)

(* filterData, over objects whose values are typed                         *)

jsNull == [type |-> "null", text |-> <<>>]

jsUndefined == [type |-> "undefined", text |-> <<>>]

jsNumber(text) == [type |-> "number", text |-> text]

jsBoolean(text) == [type |-> "boolean", text |-> text]

jsString(text) == [type |-> "string", text |-> text]

\* !value
falsy(value) ==
  \/ value = jsNull
  \/ value = jsUndefined
  \/ value = jsNumber(<<"0">>)
  \/ value = jsBoolean(<<"false">>)
  \/ value = jsString(<<>>)

keepEntry(e) == ~(e.value = jsNull \/ e.value = jsUndefined)

keepTruthy(e) == ~falsy(e.value)

\* filterData deleting every property whose value is falsy
filterDataFalsy(data) ==
  IF data.isNull THEN data
  ELSE object(SelectSeq(data.entries, keepTruthy))

\* filterData(data): deletes from data the properties that are null or
\* undefined and returns data
filterData(data) ==
  IF data.isNull THEN data
  ELSE object(SelectSeq(data.entries, keepEntry))

(* getLocation                                                             *)

digits == {"0", "1", "2", "3", "4", "5", "6", "7", "8", "9"}

noLocation ==
  [matched |-> FALSE, href |-> <<>>, protocol |-> <<>>, host |-> <<>>,
   hostname |-> <<>>, hasPort |-> FALSE, port |-> <<>>, pathname |-> <<>>,
   search |-> <<>>, hash |-> <<>>]

\* href.match(/^(https?\:)\/\/(([^:\/?#]*)(?:\:([0-9]+))?)([\/]{0,1}[^?#]*)
\*             (\?[^#]*|)(#.*|)$/): each group takes the longest run it
\* can; what is left after the search group must be empty or a '#' followed
\* by atoms other than a line terminator
getLocation(href) ==
  LET http     == <<"h", "t", "t", "p">>
      protocol == IF IsPrefix(http \o <<"s", ":">>, href)
                    THEN http \o <<"s", ":">>
                  ELSE IF IsPrefix(http \o <<":">>, href)
                    THEN http \o <<":">>
                  ELSE <<>>
      r1       == Drop(href, Len(protocol))
      r2       == Drop(r1, 2)
      hostname == spanNot(r2, {":", "/", "?", "#"})
      r3       == Drop(r2, Len(hostname))
      port     == IF r3 # <<>> /\ Head(r3) = ":"
                    THEN spanIn(Tail(r3), digits) ELSE <<>>
      hasPort  == port # <<>>
      host     == IF hasPort THEN hostname \o <<":">> \o port ELSE hostname
      r4       == Drop(r2, Len(host))
      pathname == spanNot(r4, {"?", "#"})
      r5       == Drop(r4, Len(pathname))
      search   == IF r5 # <<>> /\ Head(r5) = "?"
                    THEN spanNot(r5, {"#"}) ELSE <<>>
      r6       == Drop(r5, Len(search))
      matched  == /\ protocol # <<>>
                  /\ IsPrefix(<<"/", "/">>, r1)
                  /\ \/ r6 = <<>>
                     \/ /\ Head(r6) = "#"
                        /\ \A i \in 2..Len(r6) : r6[i] # "\n"
  IN IF matched
       THEN [matched |-> TRUE, href |-> href, protocol |-> protocol,
             host |-> host, hostname |-> hostname, hasPort |-> hasPort,
             port |-> port, pathname |-> pathname, search |-> search,
             hash |-> r6]
       ELSE noLocation

(* The constructor                                                         *)

\* a string argument that may be null
nullString == [isNull |-> TRUE, value |-> <<>>]

string(v) == [isNull |-> FALSE, value |-> v]

defaultBaseUrl ==
  <<"h", "t", "t", "p", "s", ":", "/", "/", "baas_test.talkbank.io",
    "/", "api", "/", "v1">>

\* the reference of the headers object the constructor allocates
ctorHeaders == 1

noClient ==
  [partnerId |-> <<>>, token |-> <<>>, baseUrl |-> <<>>,
   urlLocation |-> noLocation,
   config |-> [method |-> <<>>, url |-> <<>>, headers |-> 0,
               hasData |-> FALSE, data |-> <<>>]]

noHeaders ==
  [Authorization |-> <<>>, date |-> <<>>, host |-> <<>>,
   ContentType |-> <<>>, hasSha |-> FALSE, sha |-> <<>>]

\* constructor reading the host only of a location that is not null
constructorGuarded(partnerId, token, baseUrl) ==
  LET url == IF ~baseUrl.isNull /\ baseUrl.value # <<>>
               THEN baseUrl.value ELSE defaultBaseUrl
      loc == getLocation(url)
  IN [threw |-> FALSE,
      this |-> [partnerId |-> partnerId, token |-> token,
                baseUrl |-> url, urlLocation |-> loc,
                config |-> [method |-> <<>>, url |-> <<>>,
                            headers |-> ctorHeaders,
                            hasData |-> FALSE, data |-> <<>>]],
      headers |-> [Authorization |-> <<>>, date |-> <<>>,
                   host |-> loc.host,
                   ContentType |-> <<"application/json">>,
                   hasSha |-> FALSE, sha |-> <<>>]]

\* new Client(partnerId, token, baseUrl): reading .host of a null
\* urlLocation throws a TypeError and no instance is returned
constructor(partnerId, token, baseUrl) ==
  LET url == IF ~baseUrl.isNull /\ baseUrl.value # <<>>
               THEN baseUrl.value ELSE defaultBaseUrl
      loc == getLocation(url)
  IN IF ~loc.matched
       THEN [threw |-> TRUE, this |-> noClient, headers |-> noHeaders]
       ELSE [threw |-> FALSE,
             this |-> [partnerId |-> partnerId, token |-> token,
                       baseUrl |-> url, urlLocation |-> loc,
                       config |-> [method |-> <<>>, url |-> <<>>,
                                   headers |-> ctorHeaders,
                                   hasData |-> FALSE, data |-> <<>>]],
             headers |-> [Authorization |-> <<>>, date |-> <<>>,
                          host |-> loc.host,
                          ContentType |-> <<"application/json">>,
                          hasSha |-> FALSE, sha |-> <<>>]]

(* getSignature                                                            *)

apiPrefix == <<"/", "api", "/", "v1">>

\* canonicalString without its last line
canonicalStringNoTrailer(config, query, url) ==
  LET headers == config.headers
  IN toUpperCase(config.method) \o <<"\n">>
     \o apiPrefix \o trim(url) \o <<"\n">>
     \o trim(query) \o <<"\n">>
     \o trim(join(<<trim(<<"date:">> \o headers.date),
                    trim(<<"tb-content-sha256:">> \o headers.sha)>>,
                  <<"\n">>))

\* canonicalString reading headers.Date, a key the headers object lacks
canonicalStringNoDate(config, query, url) ==
  LET headers == config.headers
  IN toUpperCase(config.method) \o <<"\n">>
     \o apiPrefix \o trim(url) \o <<"\n">>
     \o trim(query) \o <<"\n">>
     \o trim(join(<<trim(<<"date:">> \o <<"undefined">>),
                    trim(<<"tb-content-sha256:">> \o headers.sha)>>,
                  <<"\n">>)) \o <<"\n">>
     \o trim(headers.sha)

\* canonicalString signing the path without the /api/v1 in front of it
canonicalStringNoPrefix(config, query, url) ==
  LET headers == config.headers
  IN toUpperCase(config.method) \o <<"\n">>
     \o trim(url) \o <<"\n">>
     \o trim(query) \o <<"\n">>
     \o trim(join(<<trim(<<"date:">> \o headers.date),
                    trim(<<"tb-content-sha256:">> \o headers.sha)>>,
                  <<"\n">>)) \o <<"\n">>
     \o trim(headers.sha)

\* the string written to the hmac; config.headers is the headers object
\* itself
canonicalString(config, query, url) ==
  LET headers      == config.headers
      header       == <<trim(<<"date:">> \o headers.date),
                        trim(<<"tb-content-sha256:">> \o headers.sha)>>
      headerString == join(header, <<"\n">>)
  IN toUpperCase(config.method) \o <<"\n">>
     \o apiPrefix \o trim(url) \o <<"\n">>
     \o trim(query) \o <<"\n">>
     \o trim(headerString) \o <<"\n">>
     \o trim(headers.sha)

\* getSignature signing the dispatch target config.url
getSignatureOfTarget(self, config, query, url) ==
  <<"TB1-HMAC-SHA256", " ">> \o self.partnerId \o <<":">>
  \o hmacHex(self.token, canonicalString(config, query, config.url))

getSignature(self, config, query, url) ==
  <<"TB1-HMAC-SHA256", " ">> \o self.partnerId \o <<":">>
  \o hmacHex(self.token, canonicalString(config, query, url))

(* createRequest                                                           *)

GET == <<"G", "E", "T">>
POST == <<"P", "O", "S", "T">>
PUT == <<"P", "U", "T">>
DELETE == <<"D", "E", "L", "E", "T", "E">>

noOptions == [isNull |-> TRUE, rewriteUri |-> FALSE]

options(rewriteUri) == [isNull |-> FALSE, rewriteUri |-> rewriteUri]

\* _.clone of lodash/core copies the own properties of its argument; a
\* property holding an object is copied as the same reference
clone(config) == config

\* the request as a reader of it sees it: config with config.headers
\* dereferenced
deref(config, hp) == [config EXCEPT !.headers = hp[config.headers]]

\* resolveUrl rewriting to the hostname, which has no port
resolveUrlHostname(self, url, opts) ==
  IF ~opts.isNull /\ opts.rewriteUri
    THEN self.urlLocation.protocol \o <<"/", "/">>
         \o self.urlLocation.hostname \o url
    ELSE self.baseUrl \o url

resolveUrl(self, url, opts) ==
  IF ~opts.isNull /\ opts.rewriteUri
    THEN self.urlLocation.protocol \o <<"/", "/">>
         \o self.urlLocation.host \o url
    ELSE self.baseUrl \o url

\* `${this.url}?${query}`: the instance has no field url
appendQuery(target, query) ==
  IF query # <<>> THEN <<"undefined">> \o <<"?">> \o query ELSE target

\* hasBody without the test of the method
hasBodyAnyMethod(data, method) ==
  /\ ~data.isNull
  /\ Len(keys(data)) > 0

hasBody(data, method) ==
  /\ ~data.isNull
  /\ Len(keys(data)) > 0
  /\ (method = POST \/ method = PUT)

\* contentHash hashing the serialized data whether or not it is sent
contentHashAlways(bodied, data) == sha256(JSONstringify(data))

contentHash(bodied, data) ==
  IF bodied THEN sha256(JSONstringify(data)) ELSE sha256(<<>>)

attachBody(config, bodied, data) ==
  IF bodied
    THEN [config EXCEPT !.hasData = TRUE, !.data = JSONstringify(data)]
    ELSE config

\* createRequest up to the call of axios: the config handed over and the
\* heap it leaves
build(self, hp, url, method, data, query, opts, now) ==
  LET config0 == clone(self.config)
      config1 == [config0 EXCEPT !.url = resolveUrl(self, url, opts)]
      q       == queryStringStringify(query)
      config2 == [config1 EXCEPT !.url = appendQuery(config1.url, q)]
      bodied  == hasBody(data, method)
      config3 == attachBody(config2, bodied, data)
      config4 == [config3 EXCEPT !.method = method]
      ref     == config4.headers
      hp1     == [hp EXCEPT ![ref].date = now]
      hp2     == [hp1 EXCEPT ![ref].hasSha = TRUE,
                             ![ref].sha = contentHash(bodied, data)]
      signed  == canonicalString(deref(config4, hp2), q, url)
      hp3     == [hp2 EXCEPT ![ref].Authorization =
                    getSignature(self, deref(config4, hp2), q, url)]
  IN [config |-> config4, heap |-> hp3, query |-> q, signed |-> signed]

(* Inputs                                                                  *)

MaxCalls == 2

MaxBuildCalls == 1

partnerP1 == <<"P1">>

tokenSecret == <<"secret">>

\* http://h:80/v
urlWithPort == <<"h", "t", "t", "p", ":", "/", "/", "h", ":", "8", "0",
                 "/", "v">>

\* https://h
urlBareHost == <<"h", "t", "t", "p", "s", ":", "/", "/", "h">>

\* ftp://h/v
urlFtp == <<"f", "t", "p", ":", "/", "/", "h", "/", "v">>

\* h/api
urlNoScheme == <<"h", "/", "api">>

\* http://h#a<LF>b
urlBrokenHash == <<"h", "t", "t", "p", ":", "/", "/", "h", "#", "a", "\n", "b">>

pathBalance == <<"/", "balance">>

pathCharge == <<"/", "client", "/", "v1", "/", "charge">>

lowerPost == <<"p", "o", "s", "t">>

bodyClient == object(<<entry(<<"client_id">>, <<"c1">>)>>)

queryPage ==
  object(<<entry(<<"skip">>, <<"500">>), entry(<<"limit">>, <<"50">>)>>)

dateJan1 ==
  <<"Mon,", " ", "01", " ", "Jan", " ", "2024", " ", "00:00:00", " ", "GMT">>

dateJan2 ==
  <<"Tue,", " ", "02", " ", "Jan", " ", "2024", " ", "00:00:00", " ", "GMT">>

BaseUrls == {nullString, string(urlWithPort)}

Paths == {pathBalance}

Methods == {GET, POST}

Bodies == {nullObject, bodyClient}

Queries == {nullObject}

OptionBags == {noOptions, options(TRUE)}

Dates == {dateJan1, dateJan2}

BuildBaseUrls ==
  {nullString, string(<<>>), string(urlWithPort), string(urlBareHost),
   string(urlFtp), string(urlNoScheme), string(urlBrokenHash)}

BuildPaths == {pathBalance, pathCharge}

BuildMethods == {GET, POST, PUT, DELETE, lowerPost}

BuildBodies == {nullObject, object(<<>>), bodyClient}

BuildQueries == {nullObject, queryPage}

BuildOptionBags == {noOptions, options(TRUE), options(FALSE)}

(* State                                                                   *)

noArgs == [partnerId |-> <<>>, token |-> <<>>, baseUrl |-> nullString]

noSig ==
  [called |-> FALSE, method |-> <<>>, url |-> <<>>, query |-> <<>>,
   date |-> <<>>, sha |-> <<>>, result |-> <<>>]

noFiltered == [calls |-> 0, given |-> nullObject, data |-> nullObject,
               first |-> nullObject]

Init ==
  /\ ctor = "none"
  /\ ctorArgs = noArgs
  /\ this = noClient
  /\ heap = <<>>
  /\ atCtor = [this |-> noClient, heap |-> <<>>]
  /\ requests = <<>>
  /\ log = <<>>
  /\ sig = noSig
  /\ filtered = noFiltered
  /\ history = <<>>

(* Operations                                                              *)

\* new Client(partnerId, token, baseUrl)
Construct(partnerId, token, baseUrl) ==
  /\ ctor = "none"
  /\ LET made == constructor(partnerId, token, baseUrl)
     IN /\ ctor' = IF made.threw THEN "threw" ELSE "ok"
        /\ this' = made.this
        /\ heap' = IF made.threw THEN <<>> ELSE <<made.headers>>
        /\ atCtor' = [this |-> made.this,
                      heap |-> IF made.threw THEN <<>> ELSE <<made.headers>>]
  /\ ctorArgs' = [partnerId |-> partnerId, token |-> token,
                  baseUrl |-> baseUrl]
  /\ UNCHANGED <<requests, log, sig, filtered, history>>

\* return axios(config): the request the transport is given
axios(config) ==
  [config |-> config, status |-> "pending", sends |-> 0, wire |-> noHeaders]

\* a promise that turns every rejection into a fulfilment
promiseRecovered(outcome) == "resolved"

\* the state of the promise createRequest returned once the promise of
\* axios has settled: it is that promise
promise(outcome) == outcome

\* the body of createRequest, run to its return: it is synchronous up to
\* and including the call of axios
Request(url, method, data, query, opts, now) ==
  /\ ctor = "ok"
  /\ LET built == build(this, heap, url, method, data, query, opts, now)
     IN /\ heap' = built.heap
        /\ requests' = Append(requests, axios(built.config))
        /\ log' = Append(log,
                    [url |-> url, method |-> method, data |-> data,
                     query |-> query, options |-> opts, now |-> now,
                     encodedQuery |-> built.query, signed |-> built.signed,
                     handed |-> deref(built.config, built.heap),
                     returned |-> Len(requests) + 1,
                     result |-> "pending"])
  /\ UNCHANGED <<ctor, ctorArgs, this, atCtor, sig, filtered>>

\* client.createRequest(url, method, data, query, options)
CreateRequest(url, method, data, query, opts, now) ==
  /\ Request(url, method, data, query, opts, now)
  /\ UNCHANGED history

\* the transport reads the headers of request i and puts them on the wire
TransportSend(i) ==
  /\ requests[i].status = "pending"
  /\ requests' = [requests EXCEPT ![i].status = "sent",
                                  ![i].sends = @ + 1,
                                  ![i].wire = heap[requests[i].config.headers]]
  /\ UNCHANGED <<ctor, ctorArgs, this, heap, atCtor, log, sig, filtered,
                 history>>

\* the exchange of request i ends; its promise settles, and with it the
\* promise every call that returned it holds
TransportSettle(i, outcome) ==
  /\ requests[i].status = "sent"
  /\ requests' = [requests EXCEPT ![i].status = outcome]
  /\ log' = [k \in 1..Len(log) |->
               IF log[k].returned = i
                 THEN [log[k] EXCEPT !.result = promise(outcome)]
                 ELSE log[k]]
  /\ UNCHANGED <<ctor, ctorArgs, this, heap, atCtor, sig, filtered, history>>

ConstructAny ==
  \E b \in BaseUrls : Construct(partnerP1, tokenSecret, b)

CreateRequestAny ==
  /\ Len(log) < MaxCalls
  /\ \E url \in Paths, method \in Methods, data \in Bodies,
        query \in Queries, opts \in OptionBags, now \in Dates :
       CreateRequest(url, method, data, query, opts, now)

TransportSendAny == \E i \in 1..Len(requests) : TransportSend(i)

TransportSettleAny ==
  \E i \in 1..Len(requests), outcome \in {"resolved", "rejected"} :
    TransportSettle(i, outcome)

Next ==
  \/ ConstructAny
  \/ CreateRequestAny
  \/ TransportSendAny
  \/ TransportSettleAny

Spec == Init /\ [][Next]_vars

ConstructBuild ==
  \E b \in BuildBaseUrls : Construct(partnerP1, tokenSecret, b)

CreateRequestBuild ==
  /\ Len(log) < MaxBuildCalls
  /\ \E url \in BuildPaths, method \in BuildMethods, data \in BuildBodies,
        query \in BuildQueries, opts \in BuildOptionBags, now \in Dates :
       CreateRequest(url, method, data, query, opts, now)

NextBuild ==
  \/ ConstructBuild
  \/ CreateRequestBuild

SpecBuild == Init /\ [][NextBuild]_vars

(* getSignature called on its own, over arguments with and without white   *)
(* space at their ends                                                     *)

SignPartnerIds == {partnerP1, <<"P2">>}

SignTokens == {tokenSecret, <<"other">>}

SignMethods == {GET, lowerPost, <<" ", "g", "e", "t">>}

SignPaths ==
  {<<>>, pathBalance, <<" ">> \o pathBalance, pathBalance \o <<"\n">>}

SignQueries ==
  {<<>>, <<"limit", "=", "50">>, <<" ", "limit", "=", "50", " ">>}

SignDates == {<<>>, dateJan1, <<" ">> \o dateJan1, dateJan1 \o <<" ">>}

SignHashes ==
  {<<>>, sha256Empty, <<"\t">> \o sha256Empty, sha256Empty \o <<"\n">>}

InitSign ==
  /\ \E p \in SignPartnerIds, t \in SignTokens :
       LET made == constructor(p, t, nullString)
       IN /\ ctor = "ok"
          /\ ctorArgs = [partnerId |-> p, token |-> t, baseUrl |-> nullString]
          /\ this = made.this
          /\ heap = <<made.headers>>
          /\ atCtor = [this |-> made.this, heap |-> <<made.headers>>]
  /\ requests = <<>>
  /\ log = <<>>
  /\ filtered = noFiltered
  /\ history = <<>>
  /\ \E method \in SignMethods, url \in SignPaths, query \in SignQueries,
        date \in SignDates, sha \in SignHashes :
       sig = [called |-> FALSE, method |-> method, url |-> url,
              query |-> query, date |-> date, sha |-> sha, result |-> <<>>]

\* client.getSignature(config, query, url)
Sign ==
  /\ ~sig.called
  /\ LET config == [method |-> sig.method, url |-> <<>>,
                    headers |-> [heap[ctorHeaders] EXCEPT
                                   !.date = sig.date, !.hasSha = TRUE,
                                   !.sha = sig.sha],
                    hasData |-> FALSE, data |-> <<>>]
     IN sig' = [sig EXCEPT !.called = TRUE,
                           !.result = getSignature(this, config, sig.query,
                                                   sig.url)]
  /\ UNCHANGED <<ctor, ctorArgs, this, heap, atCtor, requests, log, filtered,
                 history>>

NextSign == Sign

SpecSign == InitSign /\ [][NextSign]_vars

(* Properties                                                              *)

noEdgeSpace(s) ==
  s = <<>> \/ (s[1] \notin WhiteSpace /\ s[Len(s)] \notin WhiteSpace)

\* the lines of s: the runs of atoms between line feeds
RECURSIVE splitLines(_)
splitLines(s) ==
  LET first == spanNot(s, {"\n"})
  IN IF Len(first) = Len(s) THEN <<s>>
     ELSE <<first>> \o splitLines(Drop(s, Len(first) + 1))

authorizationOf(partnerId, token, canonical) ==
  <<"TB1-HMAC-SHA256", " ">> \o partnerId \o <<":">>
  \o hmacHex(token, canonical)

sentBody(e) ==
  /\ e.method \in {POST, PUT}
  /\ ~e.data.isNull
  /\ e.data.entries # <<>>

rewritten(e) == ~e.options.isNull /\ e.options.rewriteUri

\* C1: for a method, path, query, date and content hash without white
\* space at their ends, getSignature returns "TB1-HMAC-SHA256 " + partnerId
\* + ":" + the hex HMAC, keyed by the constructor's token, of the six lines
\* METHOD, /api/v1 + path, query, date: + date, tb-content-sha256: + hash,
\* hash, joined by line feeds with none at the end
C1_SignatureOfCanonicalString ==
  ( /\ sig.called
    /\ noEdgeSpace(sig.method) /\ noEdgeSpace(sig.url)
    /\ noEdgeSpace(sig.query) /\ noEdgeSpace(sig.date)
    /\ noEdgeSpace(sig.sha) )
  => sig.result =
       authorizationOf(ctorArgs.partnerId, ctorArgs.token,
         toUpperCase(sig.method) \o <<"\n">>
         \o <<"/", "api", "/", "v1">> \o sig.url \o <<"\n">>
         \o sig.query \o <<"\n">>
         \o <<"date:">> \o sig.date \o <<"\n">>
         \o <<"tb-content-sha256:">> \o sig.sha \o <<"\n">>
         \o sig.sha)

C1_Witness ==
  /\ sig.called
  /\ sig.method = lowerPost
  /\ sig.url = pathBalance
  /\ sig.query = <<"limit", "=", "50">>
  /\ sig.date = dateJan1
  /\ sig.sha = sha256Empty
  /\ ctorArgs.token = <<"other">>

\* C2: the date and tb-content-sha256 headers of the request handed to the
\* transport are the date and the hash on lines 4 and 5 of the canonical
\* string whose HMAC is that request's Authorization header, and line 6 of
\* that string is the same hash
C2_HeadersAreTheSignedOnes ==
  \A i \in 1..Len(log) :
    LET e == log[i]
        h == e.handed.headers
        l == splitLines(e.signed)
    IN /\ h.Authorization =
            authorizationOf(this.partnerId, this.token, e.signed)
       /\ Len(l) = 6
       /\ l[4] = <<"date:">> \o h.date
       /\ l[5] = <<"tb-content-sha256:">> \o h.sha
       /\ l[6] = h.sha
       /\ h.date = e.now

C2_Witness ==
  \E i \in 1..Len(log) :
    /\ log[i].method = POST
    /\ log[i].data = bodyClient
    /\ log[i].now = dateJan2
    /\ log[i].handed.headers.sha # sha256Empty

\* C3: the content hash is the SHA-256 of the serialized body when the
\* method is POST or PUT and the body is not empty, and the SHA-256 of the
\* empty string otherwise
C3_ContentHashRule ==
  \A i \in 1..Len(log) :
    LET e == log[i]
    IN /\ e.handed.headers.hasSha
       /\ e.handed.headers.sha =
            IF sentBody(e) THEN sha256(JSONstringify(e.data))
            ELSE <<"e3b0c44298fc1c149afbf4c8996fb92427ae41e4649b934ca495991b7852b855">>

C3_Witness ==
  /\ \E i \in 1..Len(log) :
       /\ log[i].method = PUT
       /\ log[i].data = bodyClient
       /\ log[i].handed.headers.sha = sha256(JSONstringify(bodyClient))

\* C4: the request handed over has a data field exactly when the method is
\* POST or PUT and the body is not empty; the field is then the JSON text of
\* the body and tb-content-sha256 is the SHA-256 of that field
C4_PayloadIffBody ==
  \A i \in 1..Len(log) :
    LET e == log[i]
        c == e.handed
    IN /\ c.hasData <=> sentBody(e)
       /\ c.hasData =>
            /\ c.data = JSONstringify(e.data)
            /\ c.headers.sha = sha256(c.data)
       /\ ~c.hasData => c.data = <<>>
       /\ requests[i].config.hasData = c.hasData
       /\ requests[i].config.data = c.data

C4_Witness ==
  /\ \E i \in 1..Len(log) :
       /\ log[i].method = POST
       /\ log[i].data = bodyClient
       /\ log[i].handed.hasData
       /\ log[i].handed.data =
            <<"{", "\"", "client_id", "\"", ":", "\"", "c1", "\"", "}">>

\* C5: two calls with the same method, path, query, date and body, one with
\* rewriteUri and one without, get the same Authorization header
C5_RewriteKeepsSignature ==
  \A i, j \in 1..Len(log) :
    ( /\ log[i].method = log[j].method
      /\ log[i].url = log[j].url
      /\ log[i].query = log[j].query
      /\ log[i].now = log[j].now
      /\ log[i].data = log[j].data
      /\ rewritten(log[i])
      /\ ~rewritten(log[j]) )
    => log[i].handed.headers.Authorization =
         log[j].handed.headers.Authorization

C5_Witness ==
  \E i, j \in 1..Len(log) :
    /\ log[i].method = POST /\ log[j].method = POST
    /\ log[i].data = bodyClient /\ log[j].data = bodyClient
    /\ log[i].now = log[j].now
    /\ rewritten(log[i])
    /\ ~rewritten(log[j])
    /\ log[i].handed.url # log[j].handed.url

\* the base URL the client is to use, and its scheme and host
expectedBaseUrl ==
  IF ctorArgs.baseUrl.isNull \/ ctorArgs.baseUrl.value = <<>>
    THEN defaultBaseUrl ELSE ctorArgs.baseUrl.value

expectedOrigin ==
  CASE expectedBaseUrl = defaultBaseUrl ->
         <<"h", "t", "t", "p", "s", ":", "/", "/", "baas_test.talkbank.io">>
    [] expectedBaseUrl = urlWithPort ->
         <<"h", "t", "t", "p", ":", "/", "/", "h", ":", "8", "0">>
    [] expectedBaseUrl = urlBareHost ->
         <<"h", "t", "t", "p", "s", ":", "/", "/", "h">>

expectedTarget(e) ==
  IF rewritten(e) THEN expectedOrigin \o e.url ELSE expectedBaseUrl \o e.url

\* C6: with an empty encoded query the URL is scheme//host + path, the host
\* with its port and without the path prefix, when rewriteUri is set, and
\* baseUrl + path otherwise
C6_TargetUrl ==
  \A i \in 1..Len(log) :
    log[i].encodedQuery = <<>> => log[i].handed.url = expectedTarget(log[i])

C6_Witness ==
  \E i \in 1..Len(log) :
    /\ log[i].encodedQuery = <<>>
    /\ rewritten(log[i])
    /\ this.baseUrl = urlWithPort
    /\ log[i].url = pathCharge

\* C7: with a query that encodes to a non-empty q the URL is the target URL
\* followed by ? and q, q being the query line that is signed; with an empty
\* encoding nothing is appended
C7_QueryAppendedToTarget ==
  \A i \in 1..Len(log) :
    LET e == log[i]
    IN /\ splitLines(e.signed)[3] = e.encodedQuery
       /\ e.handed.url =
            IF e.encodedQuery # <<>>
              THEN expectedTarget(e) \o <<"?">> \o e.encodedQuery
              ELSE expectedTarget(e)

\* C8: after any sequence of createRequest calls every field of the client,
\* the entries of the headers map of its config included, has the value it
\* had when the constructor returned
C8_ClientUntouched ==
  ctor = "ok" =>
    /\ this = atCtor.this
    /\ heap[this.config.headers] = atCtor.heap[atCtor.this.config.headers]

\* C9: the date, tb-content-sha256 and Authorization headers of a request
\* keep the values they had when it was handed to the transport, whatever
\* calls follow, so the transport puts those values on the wire
C9_RequestNotMutated ==
  \A i \in 1..Len(requests) :
    LET mine == log[i].handed.headers
        seen == IF requests[i].status = "pending"
                  THEN heap[requests[i].config.headers]
                  ELSE requests[i].wire
    IN /\ seen.date = mine.date
       /\ seen.sha = mine.sha
       /\ seen.Authorization = mine.Authorization

\* C10: a baseUrl getLocation returns null for makes the constructor throw,
\* so there is no instance and no request; with baseUrl omitted the client
\* is built on https://baas_test.talkbank.io/api/v1
C10_MalformedBaseUrlThrows ==
  ctor # "none" =>
    /\ ~getLocation(expectedBaseUrl).matched =>
         /\ ctor = "threw"
         /\ this = noClient
         /\ requests = <<>>
         /\ log = <<>>
    /\ ctorArgs.baseUrl.isNull =>
         /\ ctor = "ok"
         /\ this.baseUrl =
              <<"h", "t", "t", "p", "s", ":", "/", "/",
                "baas_test.talkbank.io", "/", "api", "/", "v1">>
    /\ \A i \in 1..Len(requests) :
         /\ log[i].handed.headers.host # <<>>
         /\ log[i].handed.headers.host = this.urlLocation.host

C10_Witness ==
  /\ ctor = "threw"
  /\ ctorArgs.baseUrl = string(urlFtp)

(* filterData called on its own, once and again on its result              *)

MaxFilterCalls == 2

absent == [type |-> "absent", text |-> <<>>]

FilterKeys == <<<<"token">>, <<"amount">>, <<"card_info">>>>

FilterValues ==
  {absent, jsNull, jsUndefined, jsNumber(<<"0">>), jsBoolean(<<"false">>),
   jsString(<<>>), jsString(<<"tok">>)}

isPresent(e) == e.value # absent

InitFilter ==
  /\ LET made == constructor(partnerP1, tokenSecret, nullString)
     IN /\ ctor = "ok"
        /\ ctorArgs = [partnerId |-> partnerP1, token |-> tokenSecret,
                       baseUrl |-> nullString]
        /\ this = made.this
        /\ heap = <<made.headers>>
        /\ atCtor = [this |-> made.this, heap |-> <<made.headers>>]
  /\ requests = <<>>
  /\ log = <<>>
  /\ sig = noSig
  /\ history = <<>>
  /\ \E values \in [1..Len(FilterKeys) -> FilterValues] :
       LET given == object(SelectSeq(
                      [i \in 1..Len(FilterKeys) |->
                         entry(FilterKeys[i], values[i])], isPresent))
       IN filtered = [calls |-> 0, given |-> given, data |-> given,
                      first |-> nullObject]

\* client.filterData(data), data being the object the last call returned
FilterData ==
  /\ filtered.calls < MaxFilterCalls
  /\ LET result == filterData(filtered.data)
     IN filtered' = [calls |-> filtered.calls + 1,
                     given |-> filtered.given,
                     data |-> result,
                     first |-> IF filtered.calls = 0 THEN result
                               ELSE filtered.first]
  /\ UNCHANGED <<ctor, ctorArgs, this, heap, atCtor, requests, log, sig,
                 history>>

NextFilter == FilterData

SpecFilter == InitFilter /\ [][NextFilter]_vars

entrySet(o) == {o.entries[i] : i \in 1..Len(o.entries)}

\* C11: filterData removes exactly the entries whose value is null or
\* undefined, keeps every other entry with its value (0, false and the
\* empty string among them), and applied to its own result changes nothing
C11_FilterDataKeepsAndIsIdempotent ==
  /\ filtered.calls >= 1 =>
       /\ entrySet(filtered.first) =
            {e \in entrySet(filtered.given) :
               e.value.type \notin {"null", "undefined"}}
       /\ Len(filtered.first.entries) = Cardinality(entrySet(filtered.first))
       /\ \A e \in entrySet(filtered.given) :
            e.value \in {jsNumber(<<"0">>), jsBoolean(<<"false">>),
                         jsString(<<>>)}
              => e \in entrySet(filtered.first)
  /\ filtered.calls >= 2 => filtered.data = filtered.first

C11_Witness ==
  /\ filtered.calls = 2
  /\ filtered.given =
       object(<<entry(<<"token">>, jsNull),
                entry(<<"amount">>, jsNumber(<<"0">>)),
                entry(<<"card_info">>, jsUndefined)>>)
  /\ filtered.data = object(<<entry(<<"amount">>, jsNumber(<<"0">>))>>)

\* C12: every createRequest call hands one request to the transport, with
\* its Authorization header set, and returns the promise of that request:
\* the request goes on the wire at most once and the caller's promise
\* settles exactly as the transport's does, a rejection as a rejection
C12_OneDispatchResultUnchanged ==
  /\ Len(requests) = Len(log)
  /\ \A i \in 1..Len(log) :
       /\ log[i].returned = i
       /\ requests[i].sends <= 1
       /\ requests[i].status # "pending" => requests[i].sends = 1
       /\ log[i].handed.headers.Authorization =
            authorizationOf(this.partnerId, this.token, log[i].signed)
       /\ log[i].result =
            IF requests[i].status \in {"resolved", "rejected"}
              THEN requests[i].status ELSE "pending"

C12_Witness ==
  \E i \in 1..Len(log) :
    /\ requests[i].status = "rejected"
    /\ log[i].result = "rejected"
    /\ requests[i].sends = 1

\* C13: getSignature trims every component on its own: the string signed
\* is METHOD, /api/v1 + trim(path), trim(query), date: + trim(date),
\* tb-content-sha256: + trim(hash), trim(hash), whatever white space the
\* arguments have at their ends
C13_EachComponentTrimmed ==
  sig.called =>
    sig.result =
      authorizationOf(ctorArgs.partnerId, ctorArgs.token,
        toUpperCase(sig.method) \o <<"\n">>
        \o <<"/", "api", "/", "v1">> \o trim(sig.url) \o <<"\n">>
        \o trim(sig.query) \o <<"\n">>
        \o <<"date:">> \o trim(sig.date) \o <<"\n">>
        \o <<"tb-content-sha256:">> \o trim(sig.sha) \o <<"\n">>
        \o trim(sig.sha))

\* C15: whenever the method line of the signed string is POST or PUT and
\* the body is not empty, the request has a payload and its content hash is
\* the SHA-256 of that payload, not of the empty string
C15_BodyDecisionFollowsSignedMethod ==
  \A i \in 1..Len(log) :
    LET e == log[i]
    IN ( /\ splitLines(e.signed)[1] \in {POST, PUT}
         /\ ~e.data.isNull
         /\ e.data.entries # <<>> )
       => /\ e.handed.hasData
          /\ e.handed.headers.sha = sha256(e.handed.data)
          /\ e.handed.headers.sha # sha256Empty

\* the path component of the URL a request was dispatched to
dispatchedPath(e) == getLocation(e.handed.url).pathname

plainDispatch(e) == ~rewritten(e) /\ e.encodedQuery = <<>>

\* C16 as stated: for every client, whatever its baseUrl, a call without
\* rewriteUri and with an empty query signs the path it is dispatched to
C16_SignedPathIsDispatchedPath ==
  \A i \in 1..Len(log) :
    plainDispatch(log[i])
      => splitLines(log[i].signed)[2] = dispatchedPath(log[i])

\* C16, amended: for a client whose baseUrl has the path prefix /api/v1 and
\* neither query nor fragment, a call without rewriteUri, with an empty
\* query and with a path that has no white space at its ends and no ? or #
\* signs the path it is dispatched to
C16_SignedPathIsDispatchedPathUnderApiV1 ==
  \A i \in 1..Len(log) :
    ( /\ plainDispatch(log[i])
      /\ noEdgeSpace(log[i].url)
      /\ \A k \in 1..Len(log[i].url) : log[i].url[k] \notin {"?", "#"}
      /\ this.urlLocation.pathname = <<"/", "api", "/", "v1">>
      /\ this.urlLocation.search = <<>>
      /\ this.urlLocation.hash = <<>> )
    => /\ splitLines(log[i].signed)[2] = dispatchedPath(log[i])
       /\ dispatchedPath(log[i]) = <<"/", "api", "/", "v1">> \o log[i].url

C16_Witness ==
  \E i \in 1..Len(log) :
    /\ plainDispatch(log[i])
    /\ this.baseUrl = defaultBaseUrl
    /\ log[i].url = pathCharge
    /\ dispatchedPath(log[i]) = <<"/", "api", "/", "v1">> \o pathCharge

(* getAccountHistory                                                       *)

MaxHistoryCalls == 1

pathTransactions == <<"/", "transactions">>

HistoryValues == {jsNull, jsString(<<>>), jsString(<<"x">>)}

\* getAccountHistory up to its call of createRequest: data is declared
\* nowhere, so the first assignment to data.<filter> throws a
\* ReferenceError, and query is passed on as the empty object it started as
getAccountHistory(dateFrom, dateTo, bank, limit, page) ==
  LET query == object(<<>>)
  IN IF \/ ~falsy(bank) \/ ~falsy(limit) \/ ~falsy(page)
        \/ ~falsy(dateFrom) \/ ~falsy(dateTo)
       THEN [threw |-> TRUE, url |-> <<>>, method |-> <<>>,
             data |-> nullObject, query |-> query]
       ELSE [threw |-> FALSE, url |-> pathTransactions, method |-> GET,
             data |-> nullObject, query |-> query]

\* client.getAccountHistory(dateFrom, dateTo, bank, limit, page)
GetAccountHistory(dateFrom, dateTo, bank, limit, page, now) ==
  /\ ctor = "ok"
  /\ LET call == getAccountHistory(dateFrom, dateTo, bank, limit, page)
         args == [dateFrom |-> dateFrom, dateTo |-> dateTo, bank |-> bank,
                  limit |-> limit, page |-> page]
     IN IF call.threw
          THEN /\ history' = Append(history,
                               [args |-> args, threw |-> TRUE, call |-> 0])
               /\ UNCHANGED <<ctor, ctorArgs, this, heap, atCtor, requests,
                              log, sig, filtered>>
          ELSE /\ Request(call.url, call.method, call.data, call.query,
                          noOptions, now)
               /\ history' = Append(history,
                               [args |-> args, threw |-> FALSE,
                                call |-> Len(log) + 1])

GetAccountHistoryAny ==
  /\ Len(history) < MaxHistoryCalls
  /\ \E dateFrom \in HistoryValues, dateTo \in HistoryValues,
        bank \in HistoryValues, limit \in HistoryValues,
        page \in HistoryValues :
       GetAccountHistory(dateFrom, dateTo, bank, limit, page, dateJan1)

NextHistory ==
  \/ ConstructAny
  \/ GetAccountHistoryAny

SpecHistory == Init /\ [][NextHistory]_vars

\* the filters of a getAccountHistory call that are not null, as query
\* entries
givenFilters(h) ==
  {entry(<<name>>, h.args[name].text) :
     name \in {n \in {"bank", "limit", "page", "dateFrom", "dateTo"} :
                 h.args[n] # jsNull}}

\* C14: a getAccountHistory call with at least one filter that is not null
\* does not fail and dispatches one GET /transactions whose query holds
\* exactly the filters that are not null
C14_HistoryFiltersApplied ==
  \A k \in 1..Len(history) :
    LET h == history[k]
    IN givenFilters(h) # {} =>
         /\ ~h.threw
         /\ h.call \in 1..Len(log)
         /\ log[h.call].method = GET
         /\ log[h.call].url = <<"/", "transactions">>
         /\ entrySet(log[h.call].query) = givenFilters(h)

====
